---- MODULE Spec2Model ----
(***************************************************************************)
(* Model of the multi-provider LLM invocation layer of institutionalized   *)
(* (internal/llm/providers.go): the backend adapters' classification of a  *)
(* response, the PR response parser and the ProviderManager fallback loop. *)
(*                                                                         *)
(* Strings are sequences of tokens.  The two markers "TITLE:" and "BODY:"  *)
(* are single tokens, " " and "\n" are the white-space tokens, "x" and "y" *)
(* are ordinary text.  An error value is the sequence of the fragments of  *)
(* its message; the nil error is the empty sequence.                       *)
(*                                                                         *)
(* The command layer (cmd: commit, pr, config) is modelled beside it, each *)
(* command with a specification of its own: SpecCommit, SpecPR,            *)
(* SpecTemplate (getPRTemplate alone) and SpecConfig.                      *)
(***************************************************************************)
EXTENDS Integers, Sequences, FiniteSets, TLC

VARIABLES
    providers,       \* pm.providers: the ordered provider names
    delayThreshold,  \* pm.delayThreshold, in ticks
    kind,            \* which coordinator method is running: "commit" | "pr" | "none"
    pc,              \* "idle" | "loop" | "waiting" | "done" | "panicked"
    i,               \* the range loop's index (1-based)
    now,             \* ticks elapsed since the running call was entered
    log,             \* one record per attempt of the running call
    inflight,        \* attempts (indices into log) whose provider call has not returned
    ret,             \* what the call returned
    content,         \* SpecParse: the raw response text handed to parsePRResponse
    parsed,          \* SpecParse: what parsePRResponse returned for content, once it ran
    env,             \* command layer: the arguments and surroundings of the command run
    cpc,             \* command layer: where the running command is; "off" when none runs
    trace,           \* command layer: what the command printed, asked and ran, in order
    exit,            \* command layer: <<>> while running, <<err>> once RunE returned err
    store            \* the configuration file: <<>> when absent, <<cfg>> when written

vars ==
    <<providers, delayThreshold, kind, pc, i, now, log, inflight, ret, content, parsed,
      env, cpc, trace, exit, store>>

coordVars == <<providers, delayThreshold, kind, pc, i, now, log, inflight, ret>>

parseVars == <<content, parsed>>

cmdVars == <<env, cpc, trace, exit, store>>

\* no command of the command layer is running
CmdOff ==
    /\ env = <<>>
    /\ cpc = "off"
    /\ trace = <<>>
    /\ exit = <<>>
    /\ store = <<>>

(***************************************************************************)
(* Bounds                                                                  *)
(***************************************************************************)
\* longest response, in lines, handed to parsePRResponse under SpecParse
MaxLines == 4

\* largest configured deadline, in ticks
MaxDelay == 2

(***************************************************************************)
(* strings                                                                 *)
(***************************************************************************)
\* unicode.IsSpace on the tokens of the model
IsSpace(c) == c \in {" ", "\n"}

RECURSIVE TrimLeft(_)
TrimLeft(s) == IF s # <<>> /\ IsSpace(Head(s)) THEN TrimLeft(Tail(s)) ELSE s

RECURSIVE TrimRight(_)
TrimRight(s) ==
    IF s # <<>> /\ IsSpace(s[Len(s)]) THEN TrimRight(SubSeq(s, 1, Len(s) - 1)) ELSE s

\* strings.TrimSpace
TrimSpace(s) == TrimRight(TrimLeft(s))

\* strings.HasPrefix for a one-token prefix
HasPrefix(s, tok) == s # <<>> /\ Head(s) = tok

\* strings.TrimPrefix for a one-token prefix
TrimPrefix(s, tok) == IF HasPrefix(s, tok) THEN Tail(s) ELSE s

\* strings.Split(s, sep): the pieces of s between the occurrences of sep
RECURSIVE Split(_, _)
Split(s, sep) ==
    LET at == {k \in 1..Len(s) : s[k] = sep}
    IN  IF at = {} THEN <<s>>
        ELSE LET k == CHOOSE m \in at : \A n \in at : m <= n
             IN  <<SubSeq(s, 1, k - 1)>> \o Split(SubSeq(s, k + 1, Len(s)), sep)

(***************************************************************************)
(* parsePRResponse                                                         *)
(***************************************************************************)
NilErr == <<>>

NoTitleErr == <<"no title found in LLM response">>

NoBodyErr == <<"no body found in LLM response">>

\* one iteration of the scan loop: line is the raw line, st the loop's locals
scanLine(st, rawLine) ==
    LET line == TrimSpace(rawLine)
    IN  IF HasPrefix(line, "TITLE:")
        THEN [st EXCEPT !.title = TrimSpace(TrimPrefix(line, "TITLE:"))]
        ELSE IF HasPrefix(line, "BODY:")
        THEN [st EXCEPT !.inBody = TRUE]
        ELSE IF st.inBody
        THEN [st EXCEPT !.body = (IF st.body # <<>> THEN st.body \o <<"\n">> ELSE <<>>) \o line]
        ELSE st

RECURSIVE scanLines(_, _)
scanLines(st, lines) ==
    IF lines = <<>> THEN st ELSE scanLines(scanLine(st, Head(lines)), Tail(lines))

\* parseResult without the check of the body: a title alone is accepted
parseResult_NoBodyCheck(st) ==
    IF st.title = <<>> THEN [title |-> <<>>, body |-> <<>>, err |-> <<"no title found in LLM response">>]
    ELSE [title |-> st.title, body |-> TrimSpace(st.body), err |-> <<>>]

\* the checks after the loop and the final clean-up of the body
parseResult(st) ==
    IF st.title = <<>> THEN [title |-> <<>>, body |-> <<>>, err |-> NoTitleErr]
    ELSE IF st.body = <<>> THEN [title |-> <<>>, body |-> <<>>, err |-> NoBodyErr]
    ELSE [title |-> st.title, body |-> TrimSpace(st.body), err |-> NilErr]

parsePRResponse(c) ==
    parseResult(scanLines([title |-> <<>>, body |-> <<>>, inBody |-> FALSE], Split(c, "\n")))

(***************************************************************************)
(* Backend adapters                                                        *)
(***************************************************************************)
ProviderNames == {"OpenAI", "Gemini", "Claude"}

\* response texts a backend may put into its first result entry
GoodPRText == <<"TITLE:", " ", "x", "\n", "\n", "BODY:", "\n", "y">>

Texts == {<<>>, <<" ", "x">>, GoodPRText, <<"TITLE:", "x">>, <<"BODY:", "\n", "y">>}

\* What the network gives one attempt.  kind "deadline": client.Do fails because
\* the attempt's context expired; "transport": client.Do fails otherwise;
\* "undecodable": json.Unmarshal fails; "body": a decoded body, with its error
\* field (<<>> when absent, <<message>> when present) and its result entries,
\* each entry the sequence of its text parts (OpenAI choices and Claude content
\* blocks always carry exactly one text, a Gemini candidate any number of parts).
Reply(k, e, es) == [kind |-> k, error |-> e, entries |-> es]

Pending == Reply("pending", <<>>, <<>>)

Responses(p) ==
    {Reply("deadline", <<>>, <<>>), Reply("transport", <<>>, <<>>),
     Reply("undecodable", <<>>, <<>>)}
    \cup {Reply("body", <<"quota exceeded">>, es) : es \in {<<>>, << <<GoodPRText>> >>}}
    \cup {Reply("body", <<>>, <<>>)}
    \cup {Reply("body", <<>>, << <<t>> >>) : t \in Texts}
    \cup (IF p = "Gemini" THEN {Reply("body", <<>>, << <<>> >>)} ELSE {})

\* what an adapter method hands back; panic marks a run-time panic inside it
Outcome(text, title, body, err) ==
    [text |-> text, title |-> title, body |-> body, err |-> err, panic |-> FALSE]

Failure(err) == Outcome(<<>>, <<>>, <<>>, err)

Panicked == [text |-> <<>>, title |-> <<>>, body |-> <<>>, err |-> NilErr, panic |-> TRUE]

\* the error returns shared by every adapter method, up to the decoded body's
\* error field and the empty result list; <<>> when none of them applies
AdapterError(p, resp) ==
    IF resp.kind = "deadline"
    THEN <<"failed to make request: ", "context deadline exceeded">>
    ELSE IF resp.kind = "transport"
    THEN <<"failed to make request: ", "connection refused">>
    ELSE IF resp.kind = "undecodable"
    THEN <<"failed to unmarshal response: ", "invalid character">>
    ELSE IF resp.error # <<>>
    THEN <<p, " API error: ", resp.error[1]>>
    ELSE IF resp.entries = <<>>
    THEN <<"no response from ", p>>
    ELSE NilErr

\* OpenAIProvider / GeminiProvider / ClaudeProvider .GenerateCommitMessage
AdapterCommitMessage(p, resp) ==
    IF AdapterError(p, resp) # NilErr THEN Failure(AdapterError(p, resp))
    ELSE IF p = "Gemini" /\ resp.entries[1] = <<>>
    THEN Failure(<<"empty response from ", p>>)
    ELSE Outcome(resp.entries[1][1], <<>>, <<>>, NilErr)

\* OpenAIProvider / GeminiProvider / ClaudeProvider .GeneratePRContent
AdapterPRContent(p, resp) ==
    IF AdapterError(p, resp) # NilErr THEN Failure(AdapterError(p, resp))
    ELSE IF resp.entries[1] = <<>>
    THEN Panicked  \* Gemini: Parts[0] of an empty slice, index out of range
    ELSE LET r == parsePRResponse(resp.entries[1][1])
         IN  Outcome(<<>>, r.title, r.body, r.err)

Adapter(k, p, resp) ==
    IF k = "commit" THEN AdapterCommitMessage(p, resp) ELSE AdapterPRContent(p, resp)

(***************************************************************************)
(* ProviderManager: the fallback coordinator                               *)
(***************************************************************************)
\* every ordered list of distinct providers NewProviderManager can be given
ProviderLists ==
    {ps \in UNION {[1..n -> ProviderNames] : n \in 0..Cardinality(ProviderNames)} :
        \A a, b \in DOMAIN ps : a # b => ps[a] # ps[b]}

\* the empty list reported with the message of an exhausted chain
NoProvidersErr_AsExhausted == <<"all providers failed, last error from ", "", ": ">>

NoProvidersErr == <<"no providers available">>

\* the final error without the wrapped error of the last provider
AllFailedErr_Unwrapped(name, err) == <<"all providers failed, last error from ", name>>

\* fmt.Errorf("all providers failed, last error from %s: %w", provider.Name(), err)
AllFailedErr(name, err) == <<"all providers failed, last error from ", name, ": ">> \o err

\* one deadline for the whole call, measured from its entry
AttemptDeadline_Shared(t, threshold) == threshold

\* context.WithTimeout(context.Background(), pm.delayThreshold) at time t
AttemptDeadline(t, threshold) == t + threshold

\* the next provider is started while a provider call is still outstanding
LoopReady_Racing == pc \in {"loop", "waiting"}

\* the loop is at its head: no provider call of this coordinator is outstanding
LoopReady == pc = "loop"

\* the loop skips the provider after a failed one
NextIndex_Skip(idx) == idx + 2

\* the loop goes back to the first provider after a failed one
NextIndex_Restart(idx) == 1

\* range loop: the index after idx
NextIndex(idx) == idx + 1

\* only a timeout falls back; any other error ends the call
NextStep_TimeoutOnly(idx, n, err, timedOut) ==
    IF err = <<>> THEN "success"
    ELSE IF idx = n THEN "exhausted"
    ELSE IF timedOut THEN "continue"
    ELSE "exhausted"

\* a response without its markers ends the call; other errors fall back
NextStep_ParseFailureEnds(idx, n, err, timedOut) ==
    IF err = <<>> THEN "success"
    ELSE IF idx = n THEN "exhausted"
    ELSE IF err \in {<<"no title found in LLM response">>, <<"no body found in LLM response">>}
    THEN "exhausted"
    ELSE "continue"

\* what the loop body does with an attempt's result: idx is the loop index, n the
\* number of providers, timedOut is ctx.Err() == context.DeadlineExceeded
NextStep(idx, n, err, timedOut) ==
    IF err = NilErr THEN "success"
    ELSE IF idx = n THEN "exhausted"
    ELSE IF timedOut THEN "continue"
    ELSE "continue"

NoReturn == [text |-> <<>>, title |-> <<>>, body |-> <<>>, name |-> "", err |-> NilErr]

\* the deferred cancel() calls run when the method returns or panics
CancelAll(l) == [a \in DOMAIN l |-> [l[a] EXCEPT !.cancelled = TRUE]]

Init ==
    /\ providers \in ProviderLists
    /\ delayThreshold \in 1..MaxDelay
    /\ kind = "none"
    /\ pc = "idle"
    /\ i = 1
    /\ now = 0
    /\ log = <<>>
    /\ inflight = {}
    /\ ret = NoReturn
    /\ content = <<>>
    /\ parsed = <<>>
    /\ CmdOff

\* a call resumes at the index the previous call on the manager stopped at
StartIndex_Resume(prev) == prev

\* for i, provider := range pm.providers: every call starts at the first
\* provider, wherever the previous call on the manager stopped
StartIndex(prev) == 1

\* GenerateCommitMessage (k = "commit") or GeneratePRContent (k = "pr") is entered
Call(k) ==
    /\ pc \in {"idle", "done"}
    /\ kind' = k
    /\ pc' = "loop"
    /\ i' = StartIndex(i)
    /\ now' = 0
    /\ log' = <<>>
    /\ inflight' = {}
    /\ ret' = NoReturn
    /\ UNCHANGED <<providers, delayThreshold, parseVars, cmdVars>>

\* loop head with a provider left: a fresh context, then the provider is called
StartAttempt ==
    /\ LoopReady
    /\ i <= Len(providers)
    /\ log' = Append(log, [provider |-> providers[i], index |-> i, start |-> now,
                           deadline |-> AttemptDeadline(now, delayThreshold),
                           end |-> -1, resp |-> Pending,
                           res |-> Failure(NilErr), cancelled |-> FALSE])
    /\ inflight' = inflight \cup {Len(log) + 1}
    /\ pc' = "waiting"
    /\ UNCHANGED <<providers, delayThreshold, kind, i, now, ret, parseVars, cmdVars>>

\* the range loop is over without a return: the provider list is empty
ReturnNoProviders ==
    /\ LoopReady
    /\ i > Len(providers)
    /\ ret' = [NoReturn EXCEPT !.err = NoProvidersErr]
    /\ log' = CancelAll(log)
    /\ pc' = "done"
    /\ UNCHANGED <<providers, delayThreshold, kind, i, now, inflight, parseVars, cmdVars>>

\* the provider call of attempt a returns (or panics) at time t with reply resp,
\* and the loop body runs to its return or its continue
Finish(a, resp, t) ==
    LET p    == log[a].provider
        res  == Adapter(kind, p, resp)
        l2   == [log EXCEPT ![a].end = t, ![a].resp = resp, ![a].res = res]
        step == NextStep(log[a].index, Len(providers), res.err, t >= log[a].deadline)
    IN  /\ now' = t
        /\ inflight' = inflight \ {a}
        /\ IF res.panic
           THEN /\ pc' = "panicked"
                /\ log' = CancelAll(l2)
                /\ UNCHANGED <<i, ret>>
           ELSE IF step = "success"
           THEN /\ pc' = "done"
                /\ log' = CancelAll(l2)
                /\ ret' = [text |-> res.text, title |-> res.title, body |-> res.body,
                           name |-> p, err |-> NilErr]
                /\ UNCHANGED i
           ELSE IF step = "exhausted"
           THEN /\ pc' = "done"
                /\ log' = CancelAll(l2)
                /\ ret' = [NoReturn EXCEPT !.name = p, !.err = AllFailedErr(p, res.err)]
                /\ UNCHANGED i
           ELSE /\ pc' = "loop"
                /\ log' = l2
                /\ i' = NextIndex(i)
                /\ UNCHANGED ret
        /\ UNCHANGED <<providers, delayThreshold, kind, parseVars, cmdVars>>

AttemptReturns ==
    /\ pc = "waiting"
    /\ \E a \in inflight : \E resp \in Responses(log[a].provider) :
          IF resp.kind = "deadline"
          THEN Finish(a, resp, log[a].deadline)
          ELSE \E t \in now..(log[a].deadline - 1) : Finish(a, resp, t)

Next ==
    \/ \E k \in {"commit", "pr"} : Call(k)
    \/ StartAttempt
    \/ ReturnNoProviders
    \/ AttemptReturns

Spec == Init /\ [][Next]_vars

\* the loop goes on when it can, and every provider call returns: by its
\* response or, at the latest, by the deadline of its context
SpecLive ==
    /\ Spec
    /\ WF_vars(StartAttempt)
    /\ WF_vars(ReturnNoProviders)
    /\ WF_vars(AttemptReturns)

(***************************************************************************)
(* The parser on its own: every response of up to MaxLines lines           *)
(***************************************************************************)
\* the lines a response is made of
Lines ==
    {<<>>, <<" ">>, <<"x">>, <<" ", "x">>, <<"y", " ">>,
     <<"TITLE:">>, <<"TITLE:", " ", "x">>, <<" ", "TITLE:", "y", " ">>,
     <<"BODY:">>, <<"BODY:", "y">>, <<"x", "TITLE:", "x">>}

RECURSIVE Join(_, _)
Join(ls, sep) ==
    IF ls = <<>> THEN <<>>
    ELSE IF Len(ls) = 1 THEN ls[1]
    ELSE ls[1] \o <<sep>> \o Join(Tail(ls), sep)

ParseInputs == {Join(ls, "\n") : ls \in UNION {[1..n -> Lines] : n \in 1..MaxLines}}

InitParse ==
    /\ content \in ParseInputs
    /\ parsed = <<>>
    /\ providers = <<>>
    /\ delayThreshold = 1
    /\ kind = "none"
    /\ pc = "idle"
    /\ i = 1
    /\ now = 0
    /\ log = <<>>
    /\ inflight = {}
    /\ ret = NoReturn
    /\ CmdOff

Parse ==
    /\ parsed = <<>>
    /\ parsed' = <<parsePRResponse(content)>>
    /\ UNCHANGED <<content, coordVars, cmdVars>>

NextParse == Parse

SpecParse == InitParse /\ [][NextParse]_vars

(***************************************************************************)
(* The command layer.  A command run is a walk of cpc from "start" to      *)
(* "done"; trace records what the run printed, asked and executed.         *)
(***************************************************************************)
\* the LLM layer is not in use
LlmOff ==
    /\ providers = <<>>
    /\ delayThreshold = 1
    /\ kind = "none"
    /\ pc = "idle"
    /\ i = 1
    /\ now = 0
    /\ log = <<>>
    /\ inflight = {}
    /\ ret = NoReturn
    /\ content = <<>>
    /\ parsed = <<>>

llmVars == <<coordVars, parseVars>>

\* an entry of trace: what was done, whether it went well, and its text
Event(ev, ok, out) == [ev |-> ev, ok |-> ok, out |-> out]

\* RunE returned nil
ExitOk == <<NilErr>>

(***************************************************************************)
(* commit: runCommit, generateCommitMessage, askForConfirmation            *)
(***************************************************************************)
\* strings.ToLower on the tokens of the model
ToLower(s) ==
    [k \in DOMAIN s |->
        CASE s[k] = "Y" -> "y"
          [] s[k] = "E" -> "e"
          [] s[k] = "S" -> "s"
          [] s[k] = "N" -> "n"
          [] OTHER -> s[k]]

\* bufio.Reader.ReadString('\n'): the input up to and including its first
\* newline, or all of it with io.EOF when it ends before a newline
ReadString(in) ==
    IF \E k \in DOMAIN in : in[k] = "\n"
    THEN LET n == CHOOSE k \in DOMAIN in :
                      in[k] = "\n" /\ \A j \in 1..(k - 1) : in[j] # "\n"
         IN  [data |-> SubSeq(in, 1, n), err |-> NilErr]
    ELSE [data |-> in, err |-> <<"EOF">>]

\* an empty answer counts as yes
askForConfirmation_DefaultYes(in) ==
    LET r == ReadString(in)
    IN  IF r.err # NilErr THEN FALSE
        ELSE ToLower(TrimSpace(r.data)) \in {<<>>, <<"y">>, <<"y", "e", "s">>}

askForConfirmation(in) ==
    LET r == ReadString(in)
    IN  IF r.err # NilErr THEN FALSE
        ELSE LET response == ToLower(TrimSpace(r.data))
             IN  response = <<"y">> \/ response = <<"y", "e", "s">>

\* what the network gives the one request of generateCommitMessage, which
\* carries no deadline
CommitReplies == {r \in Responses("OpenAI") : r.kind # "deadline"}

generateCommitMessage(resp) ==
    IF resp.kind = "transport" THEN [text |-> <<>>, err |-> <<"connection refused">>]
    ELSE IF resp.kind = "undecodable" THEN [text |-> <<>>, err |-> <<"invalid character">>]
    ELSE IF resp.error # <<>>
    THEN [text |-> <<>>, err |-> <<"OpenAI API error: ", resp.error[1]>>]
    ELSE IF resp.entries = <<>>
    THEN [text |-> <<>>, err |-> <<"no response from OpenAI">>]
    ELSE [text |-> TrimSpace(resp.entries[1][1]), err |-> NilErr]

\* what the user types before the newline
TypedAnswers ==
    {<<>>, <<" ">>, <<"y">>, <<"Y">>, <<"n">>, <<"N">>, <<"y", "e">>,
     <<"y", "e", "s">>, <<"Y", "E", "S">>, <<" ", "Y", "e", "S", " ">>,
     <<"y", "e", "s", "s">>, <<"y", " ", "e", "s">>, <<"x", "y">>}

\* the standard input: an answer ended by a newline, an answer cut off by the
\* end of the input, or a first answer followed by more input
Stdins ==
    {a \o <<"\n">> : a \in TypedAnswers} \cup TypedAnswers
    \cup {<<"n", "\n", "y", "\n">>, <<"\n", "y", "e", "s", "\n">>}

CommitEnvs == [apiKeyFlag : BOOLEAN, apiKeyEnv : BOOLEAN, stdin : Stdins]

\* getStagedDiff: the error and the output of git diff --cached
StagedDiffs ==
    {[err |-> <<"exit status 128">>, out |-> <<>>]}
    \cup {[err |-> NilErr, out |-> o] : o \in {<<>>, <<" ", "\n">>, <<"x", "\n">>}}

\* the message shown to the user: the text of the run's generate entry
ProposedMessage ==
    trace[CHOOSE k \in DOMAIN trace : trace[k].ev = "generate"].out

InitCommit ==
    /\ LlmOff
    /\ env \in CommitEnvs
    /\ cpc = "start"
    /\ trace = <<>>
    /\ exit = <<>>
    /\ store = <<>>

\* runCommit up to "Analyzing staged changes...": the key, the repository and
\* the staged diff
CommitStart ==
    /\ cpc = "start"
    /\ \E repo \in BOOLEAN, d \in StagedDiffs :
          LET err == IF ~(env.apiKeyFlag \/ env.apiKeyEnv)
                     THEN <<"OpenAI API key is required">>
                     ELSE IF ~repo THEN <<"not in a git repository">>
                     ELSE IF d.err # NilErr
                     THEN <<"failed to get staged changes: ">> \o d.err
                     ELSE IF TrimSpace(d.out) = <<>> THEN <<"no staged changes found">>
                     ELSE NilErr
          IN  IF err # NilErr
              THEN /\ cpc' = "done"
                   /\ exit' = <<err>>
                   /\ UNCHANGED trace
              ELSE /\ cpc' = "generate"
                   /\ trace' = Append(trace, Event("analyzing", TRUE, d.out))
                   /\ UNCHANGED exit
    /\ UNCHANGED <<env, store, llmVars>>

\* generateCommitMessage and the display of the proposed message
CommitGenerate ==
    /\ cpc = "generate"
    /\ \E resp \in CommitReplies :
          LET g == generateCommitMessage(resp)
          IN  /\ trace' = Append(trace, Event("generate", g.err = NilErr, g.text))
              /\ IF g.err # NilErr
                 THEN /\ cpc' = "done"
                      /\ exit' = <<(<<"failed to generate commit message: ">> \o g.err)>>
                 ELSE /\ cpc' = "confirm"
                      /\ UNCHANGED exit
    /\ UNCHANGED <<env, store, llmVars>>

\* the confirmation prompt and, on a refusal, "Commit cancelled."
CommitConfirm ==
    /\ cpc = "confirm"
    /\ LET yes == askForConfirmation(env.stdin)
       IN  /\ trace' = Append(trace, Event("prompt", yes, ReadString(env.stdin).data))
           /\ IF yes
              THEN /\ cpc' = "commit"
                   /\ UNCHANGED exit
              ELSE /\ cpc' = "done"
                   /\ exit' = ExitOk
    /\ UNCHANGED <<env, store, llmVars>>

\* commitChanges: git commit -m message
CommitChanges ==
    /\ cpc = "commit"
    /\ \E ok \in BOOLEAN :
          /\ trace' = Append(trace, Event("git commit", ok, ProposedMessage))
          /\ exit' = IF ok THEN ExitOk
                     ELSE <<(<<"failed to commit changes: ", "exit status 1">>)>>
    /\ cpc' = "done"
    /\ UNCHANGED <<env, store, llmVars>>

NextCommit ==
    \/ CommitStart
    \/ CommitGenerate
    \/ CommitConfirm
    \/ CommitChanges

SpecCommit == InitCommit /\ [][NextCommit]_vars

(***************************************************************************)
(* config: runConfigSet, runConfigInit, LoadConfig, SaveConfig             *)
(***************************************************************************)
\* runConfigSet: if delayThreshold < 1
MinDelayThreshold == 1

\* runConfigSet: || delayThreshold > 300
MaxDelayThreshold == 300

\* DefaultConfig: DelayThreshold
DefaultDelayThreshold == 10

DefaultConfig ==
    [use_emoji |-> FALSE, openai |-> TRUE, gemini |-> TRUE,
     priority |-> <<"openai">>, delay_threshold |-> DefaultDelayThreshold]

\* LoadConfig: the file's configuration, the defaults when there is no file
LoadConfig(file) == IF file = <<>> THEN DefaultConfig ELSE file[1]

\* a Config none of whose fields was set
ZeroConfig ==
    [use_emoji |-> FALSE, openai |-> FALSE, gemini |-> FALSE,
     priority |-> <<>>, delay_threshold |-> 0]

\* yaml.Unmarshal(data, &config) of a file holding the keys of f: a key the
\* file does not hold leaves its field at the zero value
Unmarshal(f) ==
    [k \in DOMAIN ZeroConfig |-> IF k \in DOMAIN f THEN f[k] ELSE ZeroConfig[k]]

\* What LoadConfig meets: whether os.UserHomeDir fails, whether the file is
\* "absent", "unreadable", "invalid" YAML or "ok", and the keys an "ok" file holds
Disk(pathErr, state, file) == [pathErr |-> pathErr, state |-> state, file |-> file]

\* invalid YAML is reported as an error
LoadConfigFrom_Strict(disk) ==
    IF disk.pathErr THEN [cfg |-> DefaultConfig, err |-> NilErr]
    ELSE IF disk.state = "absent" THEN [cfg |-> DefaultConfig, err |-> NilErr]
    ELSE IF disk.state = "unreadable" THEN [cfg |-> DefaultConfig, err |-> NilErr]
    ELSE IF disk.state = "invalid"
    THEN [cfg |-> DefaultConfig, err |-> <<"yaml: unmarshal errors">>]
    ELSE [cfg |-> Unmarshal(disk.file), err |-> NilErr]

\* LoadConfig with its two results, on any disk
LoadConfigFrom(disk) ==
    IF disk.pathErr THEN [cfg |-> DefaultConfig, err |-> NilErr]
    ELSE IF disk.state = "absent" THEN [cfg |-> DefaultConfig, err |-> NilErr]
    ELSE IF disk.state = "unreadable" THEN [cfg |-> DefaultConfig, err |-> NilErr]
    ELSE IF disk.state = "invalid" THEN [cfg |-> DefaultConfig, err |-> NilErr]
    ELSE [cfg |-> Unmarshal(disk.file), err |-> NilErr]

Digits == {"0", "1", "2", "3", "4", "5", "6", "7", "8", "9"}

DigitValue(c) ==
    CASE c = "0" -> 0 [] c = "1" -> 1 [] c = "2" -> 2 [] c = "3" -> 3 [] c = "4" -> 4
      [] c = "5" -> 5 [] c = "6" -> 6 [] c = "7" -> 7 [] c = "8" -> 8 [] c = "9" -> 9

\* strconv.ParseInt of a string of decimal digits
RECURSIVE ParseDigits(_)
ParseDigits(ds) ==
    IF ds = <<>> THEN 0
    ELSE 10 * ParseDigits(SubSeq(ds, 1, Len(ds) - 1)) + DigitValue(ds[Len(ds)])

\* the longest prefix of s made of digits
RECURSIVE LeadingDigits(_)
LeadingDigits(s) ==
    IF s # <<>> /\ Head(s) \in Digits THEN <<Head(s)>> \o LeadingDigits(Tail(s)) ELSE <<>>

\* fmt's SkipSpace in Sscanf: blanks are skipped, a newline is an error
RECURSIVE SkipSpace(_)
SkipSpace(s) ==
    IF s # <<>> /\ Head(s) = " " THEN SkipSpace(Tail(s))
    ELSE IF s # <<>> /\ Head(s) = "\n" THEN [rest |-> s, err |-> <<"unexpected newline">>]
    ELSE [rest |-> s, err |-> NilErr]

\* fmt.Sscanf(value, "%d", &n): leading blanks, an optional sign, then the
\* digits that follow; whatever comes after the digits is left unread
Sscanf_d(value) ==
    LET sk     == SkipSpace(value)
        signed == sk.rest # <<>> /\ Head(sk.rest) \in {"+", "-"}
        digits == LeadingDigits(IF signed THEN Tail(sk.rest) ELSE sk.rest)
    IN  IF sk.err # NilErr THEN [n |-> 0, err |-> sk.err]
        ELSE IF sk.rest = <<>> THEN [n |-> 0, err |-> <<"unexpected EOF">>]
        ELSE IF digits = <<>> THEN [n |-> 0, err |-> <<"expected integer">>]
        ELSE [n |-> IF signed /\ Head(sk.rest) = "-" THEN 0 - ParseDigits(digits)
                    ELSE ParseDigits(digits),
              err |-> NilErr]

BoolKeys == {"use_emoji", "providers.openai.enabled", "providers.gemini.enabled"}

ConfigKeys == BoolKeys \cup {"providers.priority", "providers.delay_threshold"}

\* the field of the configuration a boolean key names
BoolField(key) ==
    CASE key = "use_emoji" -> "use_emoji"
      [] key = "providers.openai.enabled" -> "openai"
      [] key = "providers.gemini.enabled" -> "gemini"

\* any value is taken as a priority
PriorityValues_Any == {<<"openai">>, <<"gemini">>, <<"claude">>, <<"true">>, <<"a", "b", "c">>}

\* the backends providers.priority may name
PriorityValues == {<<"openai">>, <<"gemini">>}

\* the switch of runConfigSet: the changed configuration or the error
SetValue(cfg, key, value) ==
    IF key \in BoolKeys
    THEN IF value \in {<<"true">>, <<"1">>, <<"yes">>, <<"on">>}
         THEN [cfg |-> [cfg EXCEPT ![BoolField(key)] = TRUE], err |-> NilErr]
         ELSE IF value \in {<<"false">>, <<"0">>, <<"no">>, <<"off">>}
         THEN [cfg |-> [cfg EXCEPT ![BoolField(key)] = FALSE], err |-> NilErr]
         ELSE [cfg |-> cfg, err |-> <<"invalid value for ", key>>]
    ELSE IF key = "providers.priority"
    THEN IF value \in PriorityValues
         THEN [cfg |-> [cfg EXCEPT !.priority = value], err |-> NilErr]
         ELSE [cfg |-> cfg, err |-> <<"invalid value for ", key, " (expected openai/gemini)">>]
    ELSE IF key = "providers.delay_threshold"
    THEN LET scan == Sscanf_d(value)
         IN  IF scan.err # NilErr
             THEN [cfg |-> cfg, err |-> <<"invalid value for ", key,
                                          " (expected number of seconds)">>]
             ELSE IF scan.n < MinDelayThreshold \/ scan.n > MaxDelayThreshold
             THEN [cfg |-> cfg, err |-> <<"invalid value for ", key,
                                          " (expected 1-300 seconds)">>]
             ELSE [cfg |-> [cfg EXCEPT !.delay_threshold = scan.n], err |-> NilErr]
    ELSE [cfg |-> cfg, err |-> <<"unknown config key: ", key>>]

\* the keys and values a user may type
GivenKeys == ConfigKeys \cup {"providers.claude.enabled"}

GivenValues ==
    {<<>>, <<"true">>, <<"on">>, <<"false">>, <<"TRUE">>,
     <<"openai">>, <<"gemini">>, <<"claude">>,
     <<"0">>, <<"1">>, <<"3", "0", "0">>, <<"3", "0", "1">>, <<"-", "1">>, <<" ", "1">>,
     <<"1", "2", "a", "b", "c">>, <<"1", "0", ".", "5">>, <<"a", "b", "c">>}

\* the run of one config subcommand: its arguments, the file before it, and
\* whether SaveConfig could write
ConfigRun(c, key, value, before, saved) ==
    [cmd |-> c, key |-> key, value |-> value, before |-> before, saved |-> saved]

InitConfig ==
    /\ LlmOff
    /\ env = ConfigRun("none", "", <<>>, <<>>, FALSE)
    /\ cpc = "start"
    /\ trace = <<>>
    /\ exit = <<>>
    /\ store = <<>>

\* institutionalized config set key value
ConfigSet(key, value, saved) ==
    LET r == SetValue(LoadConfig(store), key, value)
    IN  /\ env' = ConfigRun("set", key, value, store, saved)
        /\ cpc' = "done"
        /\ IF r.err # NilErr
           THEN /\ exit' = <<r.err>>
                /\ trace' = <<>>
                /\ UNCHANGED store
           ELSE IF ~saved
           THEN /\ exit' = <<(<<"failed to save config: ">>)>>
                /\ trace' = <<>>
                /\ UNCHANGED store
           ELSE /\ exit' = ExitOk
                /\ trace' = <<Event("updated", TRUE, value)>>
                /\ store' = <<r.cfg>>
        /\ UNCHANGED llmVars

\* institutionalized config init
ConfigInit(saved) ==
    /\ env' = ConfigRun("init", "", <<>>, store, saved)
    /\ cpc' = "done"
    /\ IF saved
       THEN /\ exit' = ExitOk
            /\ trace' = <<Event("created", TRUE, <<>>)>>
            /\ store' = <<DefaultConfig>>
       ELSE /\ exit' = <<(<<"failed to create config file: ">>)>>
            /\ trace' = <<>>
            /\ UNCHANGED store
    /\ UNCHANGED llmVars

NextConfig ==
    \/ \E key \in GivenKeys, value \in GivenValues, saved \in BOOLEAN :
          ConfigSet(key, value, saved)
    \/ \E saved \in BOOLEAN : ConfigInit(saved)

SpecConfig == InitConfig /\ [][NextConfig]_vars

(***************************************************************************)
(* Prompts: the template functions and the text each adapter builds.  A    *)
(* prompt is the sequence of its lines' texts; a glyph mapping of the      *)
(* emoji instruction is one token, the glyph written by its name.          *)
(***************************************************************************)
\* prompts.go: CommitMessagePromptTemplate
CommitMessagePromptTemplate(diff, useEmoji) ==
    LET emojiInstruction ==
            IF useEmoji
            THEN <<"\n", "- Add an appropriate emoji at the beginning of the commit type",
                   "sparkles feat", "bug fix", "books docs", "lipstick style",
                   "recycle refactor", "check test", "wrench chore", "zap perf",
                   "worker ci", "crane build", "rewind revert">>
            ELSE <<>>
    IN  <<"Analyze the following git diff and generate a conventional commit message.",
          "\n", "- Start with a type", "\n", "- Include a brief description in present tense",
          "\n", "- Keep the first line under 50 characters if possible",
          "\n", "- Add a body if the change is complex">>
        \o emojiInstruction
        \o <<"\n", "Git diff:", "\n">> \o diff
        \o <<"\n", "Return only the commit message, nothing else.">>

\* prompts.go: PRContentPromptTemplate
PRContentPromptTemplate(commits, currentBranch, defaultBranch, prTemplate, useEmoji) ==
    LET emojiInstruction ==
            IF useEmoji
            THEN <<"\n", "- You may add appropriate emojis to make the PR more engaging">>
            ELSE <<>>
        templateInstruction ==
            IF prTemplate # <<>>
            THEN <<"\n", "IMPORTANT: This repository has a pull request template",
                   "\n", "--- PR TEMPLATE START ---", "\n">> \o prTemplate
                 \o <<"\n", "--- PR TEMPLATE END ---">>
            ELSE <<>>
    IN  <<"Analyze the following git commits and generate a pull request title and body.",
          "\n", "The pull request merges branch ">> \o currentBranch \o <<" into ">>
        \o defaultBranch
        \o templateInstruction
        \o <<"\n", "Requirements:", "\n", "- Generate a clear, concise PR title",
             "\n", "- Create a detailed PR body", "\n", "  - ## Summary", "\n",
             "  - ## Changes Made", "\n", "  - ## Testing", "\n", "  - ## Additional Notes">>
        \o emojiInstruction
        \o <<"\n", "Commits to analyze:", "\n">> \o commits
        \o <<"\n", "Return the response in this exact format:", "\n", "TITLE:", " ",
             "[your generated title here]", "\n", "\n", "BODY:", "\n",
             "[your generated body here]">>

\* the prompt of OpenAIProvider.GenerateCommitMessage
OpenAICommitPrompt(diff, useEmoji) ==
    LET emojiInstruction ==
            IF useEmoji
            THEN <<"\n", "- Add an appropriate emoji at the beginning of the commit type",
                   "sparkles feat", "bug fix", "books docs", "lipstick style",
                   "recycle refactor", "check test", "wrench chore", "zap perf",
                   "worker ci", "crane build", "rewind revert">>
            ELSE <<>>
    IN  <<"Analyze the following git diff and generate a conventional commit message.",
          "\n", "- Start with a type", "\n", "- Include a brief description in present tense",
          "\n", "- Keep the first line under 50 characters if possible",
          "\n", "- Add a body if the change is complex">>
        \o emojiInstruction
        \o <<"\n", "Git diff:", "\n">> \o diff
        \o <<"\n", "Return only the commit message, nothing else.">>

\* Gemini's prompt without the emoji instruction, whatever the flag
GeminiCommitPrompt_NoEmoji(diff, useEmoji) ==
    LET emojiInstruction ==
            IF FALSE
            THEN <<"\n", "- Add an appropriate emoji at the beginning of the commit type",
                   "sparkles feat", "bug fix", "books docs", "lipstick style",
                   "recycle refactor", "check test", "wrench chore", "zap perf",
                   "worker ci", "crane build", "rewind revert">>
            ELSE <<>>
    IN  <<"Analyze the following git diff and generate a conventional commit message.",
          "\n", "- Start with a type", "\n", "- Include a brief description in present tense",
          "\n", "- Keep the first line under 50 characters if possible",
          "\n", "- Add a body if the change is complex">>
        \o emojiInstruction
        \o <<"\n", "Git diff:", "\n">> \o diff
        \o <<"\n", "Return only the commit message, nothing else.">>

\* the prompt of GeminiProvider.GenerateCommitMessage
GeminiCommitPrompt(diff, useEmoji) ==
    LET emojiInstruction ==
            IF useEmoji
            THEN <<"\n", "- Add an appropriate emoji at the beginning of the commit type",
                   "sparkles feat", "bug fix", "books docs", "lipstick style",
                   "recycle refactor", "check test", "wrench chore", "zap perf",
                   "worker ci", "crane build", "rewind revert">>
            ELSE <<>>
    IN  <<"Analyze the following git diff and generate a conventional commit message.",
          "\n", "- Start with a type", "\n", "- Include a brief description in present tense",
          "\n", "- Keep the first line under 50 characters if possible",
          "\n", "- Add a body if the change is complex">>
        \o emojiInstruction
        \o <<"\n", "Git diff:", "\n">> \o diff
        \o <<"\n", "Return only the commit message, nothing else.">>

\* the prompt of ClaudeProvider.GenerateCommitMessage
ClaudeCommitPrompt(diff, useEmoji) ==
    LET emojiInstruction ==
            IF useEmoji
            THEN <<"\n", "- Add an appropriate emoji at the beginning of the commit type",
                   "sparkles feat", "bug fix", "books docs", "lipstick style",
                   "recycle refactor", "check test", "wrench chore", "zap perf",
                   "worker ci", "crane build", "rewind revert">>
            ELSE <<>>
    IN  <<"Analyze the following git diff and generate a conventional commit message.",
          "\n", "- Start with a type", "\n", "- Include a brief description in present tense",
          "\n", "- Keep the first line under 50 characters if possible",
          "\n", "- Add a body if the change is complex">>
        \o emojiInstruction
        \o <<"\n", "Git diff:", "\n">> \o diff
        \o <<"\n", "Return only the commit message, nothing else.">>

\* the prompt of OpenAIProvider.GeneratePRContent
OpenAIPRPrompt(commits, currentBranch, defaultBranch, useEmoji, prTemplate) ==
    LET emojiInstruction ==
            IF useEmoji
            THEN <<"\n", "- You may add appropriate emojis to make the PR more engaging">>
            ELSE <<>>
        templateInstruction ==
            IF prTemplate # <<>>
            THEN <<"\n", "IMPORTANT: This repository has a pull request template",
                   "\n", "--- PR TEMPLATE START ---", "\n">> \o prTemplate
                 \o <<"\n", "--- PR TEMPLATE END ---">>
            ELSE <<>>
    IN  <<"Analyze the following git commits and generate a pull request title and body.",
          "\n", "The pull request merges branch ">> \o currentBranch \o <<" into ">>
        \o defaultBranch
        \o templateInstruction
        \o <<"\n", "Requirements:", "\n", "- Generate a clear, concise PR title",
             "\n", "- Create a detailed PR body", "\n", "  - ## Summary", "\n",
             "  - ## Changes Made", "\n", "  - ## Testing", "\n", "  - ## Additional Notes">>
        \o emojiInstruction
        \o <<"\n", "Commits to analyze:", "\n">> \o commits
        \o <<"\n", "Return the response in this exact format:", "\n", "TITLE:", " ",
             "[your generated title here]", "\n", "\n", "BODY:", "\n",
             "[your generated body here]">>

\* the prompt of GeminiProvider.GeneratePRContent
GeminiPRPrompt(commits, currentBranch, defaultBranch, useEmoji, prTemplate) ==
    LET emojiInstruction ==
            IF useEmoji
            THEN <<"\n", "- You may add appropriate emojis to make the PR more engaging">>
            ELSE <<>>
        templateInstruction ==
            IF prTemplate # <<>>
            THEN <<"\n", "IMPORTANT: This repository has a pull request template",
                   "\n", "--- PR TEMPLATE START ---", "\n">> \o prTemplate
                 \o <<"\n", "--- PR TEMPLATE END ---">>
            ELSE <<>>
    IN  <<"Analyze the following git commits and generate a pull request title and body.",
          "\n", "The pull request merges branch ">> \o currentBranch \o <<" into ">>
        \o defaultBranch
        \o templateInstruction
        \o <<"\n", "Requirements:", "\n", "- Generate a clear, concise PR title",
             "\n", "- Create a detailed PR body", "\n", "  - ## Summary", "\n",
             "  - ## Changes Made", "\n", "  - ## Testing", "\n", "  - ## Additional Notes">>
        \o emojiInstruction
        \o <<"\n", "Commits to analyze:", "\n">> \o commits
        \o <<"\n", "Return the response in this exact format:", "\n", "TITLE:", " ",
             "[your generated title here]", "\n", "\n", "BODY:", "\n",
             "[your generated body here]">>

\* the prompt of ClaudeProvider.GeneratePRContent
ClaudePRPrompt(commits, currentBranch, defaultBranch, useEmoji, prTemplate) ==
    LET emojiInstruction ==
            IF useEmoji
            THEN <<"\n", "- You may add appropriate emojis to make the PR more engaging">>
            ELSE <<>>
        templateInstruction ==
            IF prTemplate # <<>>
            THEN <<"\n", "IMPORTANT: This repository has a pull request template",
                   "\n", "--- PR TEMPLATE START ---", "\n">> \o prTemplate
                 \o <<"\n", "--- PR TEMPLATE END ---">>
            ELSE <<>>
    IN  <<"Analyze the following git commits and generate a pull request title and body.",
          "\n", "The pull request merges branch ">> \o currentBranch \o <<" into ">>
        \o defaultBranch
        \o templateInstruction
        \o <<"\n", "Requirements:", "\n", "- Generate a clear, concise PR title",
             "\n", "- Create a detailed PR body", "\n", "  - ## Summary", "\n",
             "  - ## Changes Made", "\n", "  - ## Testing", "\n", "  - ## Additional Notes">>
        \o emojiInstruction
        \o <<"\n", "Commits to analyze:", "\n">> \o commits
        \o <<"\n", "Return the response in this exact format:", "\n", "TITLE:", " ",
             "[your generated title here]", "\n", "\n", "BODY:", "\n",
             "[your generated body here]">>

\* the prompt adapter p puts into its commit request
CommitPrompt(p, diff, useEmoji) ==
    CASE p = "OpenAI" -> OpenAICommitPrompt(diff, useEmoji)
      [] p = "Gemini" -> GeminiCommitPrompt(diff, useEmoji)
      [] p = "Claude" -> ClaudeCommitPrompt(diff, useEmoji)

\* the prompt adapter p puts into its pull request request
PRPrompt(p, commits, currentBranch, defaultBranch, useEmoji, prTemplate) ==
    CASE p = "OpenAI" -> OpenAIPRPrompt(commits, currentBranch, defaultBranch, useEmoji, prTemplate)
      [] p = "Gemini" -> GeminiPRPrompt(commits, currentBranch, defaultBranch, useEmoji, prTemplate)
      [] p = "Claude" -> ClaudePRPrompt(commits, currentBranch, defaultBranch, useEmoji, prTemplate)

\* the diffs and commit logs a prompt is built for; one of them quotes a line
\* of the emoji instruction, as a diff of the prompt source does
PromptTexts ==
    {<<>>, <<"x">>, <<"x", "\n", "y">>, <<"h", " ", "x">>, <<"sparkles feat">>,
     <<"x", "\n", "rewind revert", "\n", "rewind revert">>}

PromptInputs ==
    [provider : ProviderNames, kind : {"commit", "pr"}, text : PromptTexts,
     useEmoji : BOOLEAN, prTemplate : {<<>>, <<"y">>}]

InitPrompt ==
    /\ LlmOff
    /\ env \in PromptInputs
    /\ cpc = "start"
    /\ trace = <<>>
    /\ exit = <<>>
    /\ store = <<>>

\* the adapter builds the prompt of its request
BuildPrompt ==
    /\ cpc = "start"
    /\ trace' = <<Event("request", TRUE,
                        IF env.kind = "commit"
                        THEN CommitPrompt(env.provider, env.text, env.useEmoji)
                        ELSE PRPrompt(env.provider, env.text, <<"feature">>, <<"main">>,
                                      env.useEmoji, env.prTemplate))>>
    /\ cpc' = "done"
    /\ UNCHANGED <<env, exit, store, llmVars>>

NextPrompt == BuildPrompt

SpecPrompt == InitPrompt /\ [][NextPrompt]_vars

(***************************************************************************)
(* pr: getPRTemplate                                                       *)
(***************************************************************************)
\* the upper-case file is looked for first
templatePaths_UpperFirst ==
    <<".github/PULL_REQUEST_TEMPLATE.md",
      ".github/pull_request_template.md",
      ".github/PULL_REQUEST_TEMPLATE/pull_request_template.md",
      "docs/pull_request_template.md">>

templatePaths ==
    <<".github/pull_request_template.md",
      ".github/PULL_REQUEST_TEMPLATE.md",
      ".github/PULL_REQUEST_TEMPLATE/pull_request_template.md",
      "docs/pull_request_template.md">>

\* What is at a path: nothing (os.Stat fails), something os.Stat finds and
\* os.ReadFile cannot read (a directory, a file without read permission), or
\* a file with its content.
Absent == [exists |-> FALSE, readable |-> FALSE, data |-> <<>>]

Unreadable == [exists |-> TRUE, readable |-> FALSE, data |-> <<>>]

File(d) == [exists |-> TRUE, readable |-> TRUE, data |-> d]

TemplateTexts == {<<"\n">>, <<"x">>, <<" ", "y", "\n">>}

FileStates == {Absent, Unreadable} \cup {File(d) : d \in TemplateTexts}

PathNames == {templatePaths[k] : k \in DOMAIN templatePaths}

FileSystems == [PathNames -> FileStates]

\* the loop of getPRTemplate from its k-th path on
RECURSIVE getPRTemplateFrom(_, _)
getPRTemplateFrom(fs, k) ==
    IF k > Len(templatePaths) THEN [content |-> <<>>, err |-> NilErr]
    ELSE LET f == fs[templatePaths[k]]
         IN  IF f.exists
             THEN IF ~f.readable
                  THEN [content |-> <<>>,
                        err |-> <<"failed to read PR template at ", templatePaths[k]>>]
                  ELSE [content |-> TrimSpace(f.data), err |-> NilErr]
             ELSE getPRTemplateFrom(fs, k + 1)

getPRTemplate(fs) == getPRTemplateFrom(fs, 1)

InitTemplate ==
    /\ LlmOff
    /\ env \in [files : FileSystems]
    /\ cpc = "start"
    /\ trace = <<>>
    /\ exit = <<>>
    /\ store = <<>>

\* one call of getPRTemplate in the directory env.files
GetTemplate ==
    /\ cpc = "start"
    /\ LET r == getPRTemplate(env.files)
       IN  /\ trace' = Append(trace, Event("template", r.err = NilErr, r.content))
           /\ exit' = <<r.err>>
    /\ cpc' = "done"
    /\ UNCHANGED <<env, store, llmVars>>

NextTemplate == GetTemplate

SpecTemplate == InitTemplate /\ [][NextTemplate]_vars

(***************************************************************************)
(* pr: runPR, generatePRContent, createPR                                  *)
(***************************************************************************)
\* the flags prCmd registers
PRFlags == {"draft", "dry-run"}

\* the persistent flags rootCmd registers for every command
RootFlags == {"api-key", "emoji"}

\* the flags a user may pass
GivenFlags == SUBSET {"draft", "dry-run", "yes", "emoji"}

\* the configuration files a run may meet: none, a damaged one, one written by
\* config set, and files edited by hand
PRDisks ==
    {Disk(TRUE, "ok", DefaultConfig), Disk(FALSE, "absent", <<>>),
     Disk(FALSE, "unreadable", <<>>), Disk(FALSE, "invalid", <<>>),
     Disk(FALSE, "ok", [DefaultConfig EXCEPT !.use_emoji = TRUE]),
     Disk(FALSE, "ok", [use_emoji |-> TRUE]),
     Disk(FALSE, "ok", [DefaultConfig EXCEPT !.delay_threshold = 1000])}

PREnvs ==
    [flags : GivenFlags, gitRepo : BOOLEAN, ghCli : BOOLEAN, ghAuth : BOOLEAN,
     disk : PRDisks]

\* the result of running a program: its error and its standard output
Ran(err, out) == [err |-> err, out |-> out]

CmdFailed == Ran(<<"exit status 1">>, <<>>)

\* git branch --show-current
CurrentBranchRuns ==
    {CmdFailed, Ran(NilErr, <<"main", "\n">>), Ran(NilErr, <<"feature", "\n">>),
     Ran(NilErr, <<"release", "/", "v1", "\n">>)}

\* git symbolic-ref refs/remotes/origin/HEAD
SymbolicRefRuns ==
    {CmdFailed} \cup
    {Ran(NilErr, <<"refs", "/", "remotes", "/", "origin", "/">> \o b \o <<"\n">>) :
        b \in {<<"main">>, <<"master">>, <<"release", "/", "v1">>}}

\* gh repo view --json defaultBranchRef --jq .defaultBranchRef.name
RepoViewRuns == {CmdFailed, Ran(NilErr, <<"main", "\n">>), Ran(NilErr, <<"null", "\n">>)}

\* git log --oneline: a commit is its hash "h", a space and its subject
GitLogRuns ==
    {CmdFailed} \cup
    {Ran(NilErr, o) : o \in {<<>>, <<"\n">>, <<"h", " ", "x", "\n">>, <<"h", "\n">>,
                             <<"h", " ", "x", " ", "y", "\n", "h", " ", "y", "\n">>}}

\* the directories generatePRContent looks for a template in
PRFileSystems ==
    {fs \in FileSystems :
        /\ \A p \in PathNames \ {templatePaths[1]} : fs[p] = Absent
        /\ fs[templatePaths[1]] \in {Absent, Unreadable, File(<<" ", "y", "\n">>)}}

getCurrentBranch(run) ==
    IF run.err # NilErr THEN [branch |-> <<>>, err |-> run.err]
    ELSE [branch |-> TrimSpace(run.out), err |-> NilErr]

\* getDefaultBranch with isGHAuthenticated() = auth and branchExists answering
\* hasMain and hasMaster; it never returns an error
getDefaultBranch(symref, auth, view, hasMain, hasMaster) ==
    IF symref.err = NilErr
    THEN LET parts == Split(TrimSpace(symref.out), "/") IN parts[Len(parts)]
    ELSE IF auth /\ view.err = NilErr
                 /\ TrimSpace(view.out) # <<>> /\ TrimSpace(view.out) # <<"null">>
    THEN TrimSpace(view.out)
    ELSE IF hasMain THEN <<"main">>
    ELSE IF hasMaster THEN <<"master">>
    ELSE <<"main">>

NotAuthenticatedErr == <<"not authenticated with GitHub CLI">>

\* authentication is checked in a dry run too
AuthRequired_Always(isDryRun) == TRUE

\* runPR: if !isDryRun && !isGHAuthenticated()
AuthRequired(isDryRun) == ~isDryRun

\* strings.SplitN(firstCommit, " ", 2): the title of a dry run
DryRunTitle(commits, currentBranch) ==
    LET firstCommit == Split(commits, "\n")[1]
    IN  IF \E k \in DOMAIN firstCommit : firstCommit[k] = " "
        THEN LET n == CHOOSE k \in DOMAIN firstCommit :
                          firstCommit[k] = " " /\ \A j \in 1..(k - 1) : firstCommit[j] # " "
             IN  SubSeq(firstCommit, n + 1, Len(firstCommit))
        ELSE <<"Changes from ">> \o currentBranch

\* the body of a dry run
DryRunBody(commits, prTemplate) ==
    <<"## Recent Commits", "\n">> \o commits \o
    (IF prTemplate # <<>>
     THEN <<"\n", "## Template Structure", "\n">> \o prTemplate
     ELSE <<"\n", "## Changes Made">>)

\* what setupProviders hands back: an error, no provider or some providers
ProviderSetups == {"error", "none", "some"}

\* what ProviderManager.GeneratePRContent hands back to generatePRContent
ManagerReturns ==
    {[title |-> <<"x">>, body |-> <<"y">>, name |-> "OpenAI", err |-> NilErr],
     [title |-> <<>>, body |-> <<>>, name |-> "Gemini",
      err |-> AllFailedErr("Gemini", NoTitleErr)]}

\* the text of the run's entry ev
TraceOut(ev) == trace[CHOOSE k \in DOMAIN trace : trace[k].ev = ev].out

InitPR ==
    /\ LlmOff
    /\ env \in PREnvs
    /\ cpc = "start"
    /\ trace = <<>>
    /\ exit = <<>>
    /\ store = <<>>

\* cobra hands runPR only a command line made of registered flags
PRParseFlags ==
    /\ cpc = "start"
    /\ IF env.flags \subseteq PRFlags \cup RootFlags
       THEN /\ cpc' = "checks"
            /\ UNCHANGED exit
       ELSE /\ cpc' = "done"
            /\ exit' = <<(<<"unknown flag: --",
                            CHOOSE f \in env.flags : f \notin PRFlags \cup RootFlags>>)>>
    /\ UNCHANGED <<env, trace, store, llmVars>>

\* the branch is never taken for the default branch
OnDefaultBranch_Never(currentBranch, defaultBranch) == FALSE

\* runPR: if currentBranch == defaultBranch
OnDefaultBranch(currentBranch, defaultBranch) == currentBranch = defaultBranch

\* runPR up to config.LoadConfig: the checks, "Creating PR: current -> default"
\* and the configuration
PRChecks ==
    /\ cpc = "checks"
    /\ \E cur \in CurrentBranchRuns, symref \in SymbolicRefRuns, view \in RepoViewRuns,
          hasMain \in BOOLEAN, hasMaster \in BOOLEAN :
          LET isDryRun      == "dry-run" \in env.flags
              current       == getCurrentBranch(cur)
              defaultBranch == getDefaultBranch(symref, env.ghAuth, view, hasMain, hasMaster)
              load          == LoadConfigFrom(env.disk)
              early == IF ~env.gitRepo THEN <<"not in a git repository">>
                       ELSE IF ~env.ghCli THEN <<"GitHub CLI (gh) is not available">>
                       ELSE IF AuthRequired(isDryRun) /\ ~env.ghAuth
                       THEN NotAuthenticatedErr
                       ELSE NilErr
              asked == Append(trace, Event("git branch", cur.err = NilErr, cur.out))
              both  == Append(asked, Event("git symbolic-ref", symref.err = NilErr, symref.out))
          IN  IF early # NilErr
              THEN /\ cpc' = "done"
                   /\ exit' = <<early>>
                   /\ UNCHANGED trace
              ELSE IF current.err # NilErr
              THEN /\ cpc' = "done"
                   /\ exit' = <<(<<"failed to get current branch: ">> \o current.err)>>
                   /\ trace' = asked
              ELSE IF OnDefaultBranch(current.branch, defaultBranch)
              THEN /\ cpc' = "done"
                   /\ exit' = <<(<<"cannot create PR from default branch">>)>>
                   /\ trace' = both
              ELSE IF load.err # NilErr
              THEN /\ cpc' = "done"
                   /\ exit' = <<(<<"failed to load configuration: ">> \o load.err)>>
                   /\ trace' = Append(both, Event("target", TRUE,
                                                  <<current.branch, defaultBranch>>))
              ELSE /\ cpc' = "collect"
                   /\ trace' = both \o
                         <<Event("target", TRUE, <<current.branch, defaultBranch>>),
                           Event("config", TRUE, load.cfg)>>
                   /\ UNCHANGED exit
    /\ UNCHANGED <<env, store, llmVars>>

\* generatePRContent up to the template: the commit log and getPRTemplate
PRCollect ==
    /\ cpc = "collect"
    /\ \E first \in GitLogRuns, second \in GitLogRuns, fs \in PRFileSystems :
          LET run     == IF first.err = NilErr THEN first ELSE second
              commits == TrimSpace(run.out)
              tmpl    == getPRTemplate(fs)
              logged  == Append(trace, Event("git log", run.err = NilErr, run.out))
          IN  IF run.err # NilErr
              THEN /\ trace' = logged
                   /\ cpc' = "done"
                   /\ exit' = <<(<<"failed to generate PR content: ", "failed to get commits: ">>
                                 \o run.err)>>
              ELSE IF commits = <<>>
              THEN /\ trace' = logged
                   /\ cpc' = "done"
                   /\ exit' = <<(<<"failed to generate PR content: ",
                                   "no commits found on branch ">> \o TraceOut("target")[1])>>
              ELSE /\ trace' = Append(logged, Event("template", tmpl.err = NilErr, tmpl.content))
                   /\ IF tmpl.err # NilErr
                      THEN /\ cpc' = "done"
                           /\ exit' = <<(<<"failed to generate PR content: ",
                                           "failed to get PR template: ">> \o tmpl.err)>>
                      ELSE /\ cpc' = "content"
                           /\ UNCHANGED exit
    /\ UNCHANGED <<env, store, llmVars>>

\* generatePRContent in a dry run: title and body from the commit log alone
PRDryContent ==
    /\ cpc = "content"
    /\ "dry-run" \in env.flags
    /\ LET commits == TrimSpace(TraceOut("git log"))
       IN  trace' = trace \o
              <<Event("title", TRUE, DryRunTitle(commits, TraceOut("target")[1])),
                Event("body", TRUE, DryRunBody(commits, TraceOut("template")))>>
    /\ cpc' = "finish"
    /\ UNCHANGED <<env, exit, store, llmVars>>

\* generatePRContent otherwise: setupProviders, then the provider manager with
\* the configured deadline, whose backend r.name answers the prompt
PRLlmContent ==
    /\ cpc = "content"
    /\ "dry-run" \notin env.flags
    /\ \E setup \in ProviderSetups, r \in ManagerReturns :
          LET cfg      == TraceOut("config")
              useEmoji == cfg.use_emoji
              prompt   == PRPrompt(r.name, TrimSpace(TraceOut("git log")),
                                   TraceOut("target")[1], TraceOut("target")[2],
                                   useEmoji, TraceOut("template"))
              called   == trace \o <<Event("manager", TRUE, <<cfg.delay_threshold>>),
                                     Event("llm", r.err = NilErr, prompt)>>
          IN  IF setup = "error"
              THEN /\ cpc' = "done"
                   /\ exit' = <<(<<"failed to generate PR content: ",
                                   "failed to setup providers: ">>)>>
                   /\ UNCHANGED trace
              ELSE IF setup = "none"
              THEN /\ cpc' = "done"
                   /\ exit' = <<(<<"failed to generate PR content: ",
                                   "no LLM providers available">>)>>
                   /\ UNCHANGED trace
              ELSE IF r.err # NilErr
              THEN /\ cpc' = "done"
                   /\ exit' = <<(<<"failed to generate PR content: ",
                                   "failed to generate PR content using ", r.name, ": ">>
                                 \o r.err)>>
                   /\ trace' = called
              ELSE /\ cpc' = "finish"
                   /\ trace' = called \o <<Event("title", TRUE, r.title),
                                            Event("body", TRUE, r.body)>>
                   /\ UNCHANGED exit
    /\ UNCHANGED <<env, store, llmVars>>

\* runPR in a dry run: the preview
PRPreview ==
    /\ cpc = "finish"
    /\ "dry-run" \in env.flags
    /\ trace' = Append(trace, Event("preview", "draft" \in env.flags, TraceOut("title")))
    /\ cpc' = "done"
    /\ exit' = ExitOk
    /\ UNCHANGED <<env, store, llmVars>>

\* runPR otherwise: createPR runs gh pr create
PRCreate ==
    /\ cpc = "finish"
    /\ "dry-run" \notin env.flags
    /\ \E gh \in {CmdFailed, Ran(NilErr, <<"https://github.com/o/r/pull/1">>)} :
          /\ trace' = Append(trace, Event("gh pr create", gh.err = NilErr, TraceOut("title")))
          /\ exit' = IF gh.err = NilErr THEN ExitOk
                     ELSE <<(<<"failed to create pull request: ", "failed to create PR: ">>
                             \o gh.err)>>
    /\ cpc' = "done"
    /\ UNCHANGED <<env, store, llmVars>>

NextPR ==
    \/ PRParseFlags
    \/ PRChecks
    \/ PRCollect
    \/ PRDryContent
    \/ PRLlmContent
    \/ PRPreview
    \/ PRCreate

SpecPR == InitPR /\ [][NextPR]_vars

(***************************************************************************)
(* Properties of the coordinator, under Spec                               *)
(***************************************************************************)
\* attempt a has returned
Returned(a) == log[a].end >= 0 /\ ~log[a].res.panic

\* attempt a has returned an error / returned no error
Failed(a) == Returned(a) /\ log[a].res.err # <<>>

Succeeded(a) == Returned(a) /\ log[a].res.err = <<>>

\* sub occurs in s as a run of consecutive fragments
Contains(s, sub) ==
    \E k \in 0..(Len(s) - Len(sub)) : SubSeq(s, k + 1, k + Len(sub)) = sub

\* attempt a was followed by the attempt of the next provider of the list, or
\* the loop stands at that provider
MovedOn(a) ==
    \/ pc = "loop" /\ Len(log) = a /\ i = log[a].index + 1
    \/ Len(log) > a /\ log[a + 1].index = log[a].index + 1

\* C1: in GenerateCommitMessage, when provider k is the first whose attempt
\* returns no error, the call returns provider k's text and name with a nil
\* error, providers 1..k-1 were each invoked exactly once, in list order and
\* before k, and providers k+1..N are never invoked.
C1_FirstSuccessWins ==
    kind = "commit" =>
        \A k \in DOMAIN log :
            Succeeded(k) =>
                /\ pc = "done"
                /\ Len(log) = k
                /\ \A a \in 1..k : log[a].index = a /\ log[a].provider = providers[a]
                /\ \A a \in 1..(k - 1) : Failed(a) /\ log[a].end <= log[a + 1].start
                /\ ret.err = <<>>
                /\ ret.name = providers[k]
                /\ ret.text = log[k].resp.entries[1][1]

\* provider 2 of 3 answered after provider 1 failed; provider 3 was not invoked
C1_Witness ==
    /\ kind = "commit" /\ pc = "done" /\ Len(providers) = 3
    /\ Len(log) = 2 /\ Failed(1) /\ Succeeded(2)

\* C2: when every provider of a non-empty chain fails, the call returns a
\* non-nil error whose text contains the name of the last provider of the list
\* and wraps that provider's own error; no earlier provider's error appears in it.
C2_LastErrorSurfaces ==
    (pc = "done" /\ providers # <<>> /\ \A a \in DOMAIN log : Failed(a)) =>
        LET n == Len(providers)
        IN  /\ Len(log) = n
            /\ ret.err # <<>>
            /\ Contains(ret.err, <<providers[n]>>)
            /\ ret.err = <<"all providers failed, last error from ", providers[n], ": ">>
                            \o log[n].res.err
            /\ log[n].res.err # <<>>
            /\ \A a \in 1..(n - 1) :
                   log[a].res.err # log[n].res.err => ~Contains(ret.err, log[a].res.err)

\* three providers failed, the first with another error than the last
C2_Witness ==
    /\ pc = "done" /\ kind = "pr" /\ Len(providers) = 3 /\ Len(log) = 3
    /\ \A a \in 1..3 : Failed(a)
    /\ log[1].res.err # log[3].res.err

\* C3: with an empty provider list a call fails at once with the error
\* "no providers available", which no call on a non-empty list returns, with an
\* empty provider name, empty texts and no attempt.
C3_NoProviders ==
    /\ providers = <<>> =>
           /\ log = <<>> /\ inflight = {} /\ now = 0
           /\ pc = "done" =>
                  /\ ret.err = <<"no providers available">>
                  /\ ret.name = ""
                  /\ ret.text = <<>> /\ ret.title = <<>> /\ ret.body = <<>>
    /\ (providers # <<>> /\ pc = "done") => ret.err # <<"no providers available">>

C3_Witness == providers = <<>> /\ pc = "done" /\ kind = "pr"

ParseFailed(a) ==
    /\ Returned(a)
    /\ log[a].res.err \in {<<"no title found in LLM response">>,
                           <<"no body found in LLM response">>}

C6_FreshDeadline ==
    \A a \in DOMAIN log :
        /\ log[a].deadline - log[a].start = delayThreshold
        /\ Returned(a) => log[a].start <= log[a].end /\ log[a].end <= log[a].deadline

\* the first attempt used up its whole deadline and the second one answered
\* later than one deadline after the call was entered
C6_Witness ==
    /\ Len(log) >= 2
    /\ log[1].resp.kind = "deadline" /\ log[1].end = delayThreshold
    /\ Succeeded(2) /\ log[2].end > delayThreshold

\* C7: at most one backend attempt is in flight at any moment; attempt i+1 is
\* started only after attempt i has returned.
C7_OneInFlight ==
    /\ Cardinality(inflight) <= 1
    /\ inflight # {} => inflight = {Len(log)} /\ pc = "waiting"
    /\ \A a \in 1..(Len(log) - 1) : log[a].end >= 0 /\ log[a].end <= log[a + 1].start

\* the second attempt is in flight after the first has returned
C7_Witness == pc = "waiting" /\ Len(log) = 2 /\ inflight = {2} /\ Failed(1)

\* C8 as stated: a call returns either a non-nil error with every text field
\* empty, or a nil error with a complete result: a non-empty commit message,
\* or a non-empty title and a non-empty body.
C8_NoPartialResult ==
    pc = "done" =>
        \/ ret.err # <<>> /\ ret.text = <<>> /\ ret.title = <<>> /\ ret.body = <<>>
        \/ /\ ret.err = <<>>
           /\ IF kind = "commit" THEN ret.text # <<>>
              ELSE ret.title # <<>> /\ ret.body # <<>>

(***************************************************************************)
(* Properties of parsePRResponse, under SpecParse                          *)
(***************************************************************************)
\* the lines of the response, as written
RawLines == Split(content, "\n")

\* line k begins, after trimming, with the TITLE: / BODY: marker
IsTitleLine(k) == HasPrefix(TrimSpace(RawLines[k]), "TITLE:")

IsBodyLine(k) == HasPrefix(TrimSpace(RawLines[k]), "BODY:")

\* what follows the marker on TITLE: line k, trimmed
TitlePayload(k) == TrimSpace(Tail(TrimSpace(RawLines[k])))

\* some TITLE: line carries a non-empty payload
SomeTitleGiven == \E k \in DOMAIN RawLines : IsTitleLine(k) /\ TitlePayload(k) # <<>>

\* something that is not white space follows a BODY: line
SomethingAfterBody ==
    \E b, m \in DOMAIN RawLines : b < m /\ IsBodyLine(b) /\ TrimSpace(RawLines[m]) # <<>>

\* C9: parsePRResponse succeeds only with a non-empty title and a non-empty
\* body; it fails with the missing-title error when no TITLE: line with a
\* non-empty payload was found, and fails (with the missing-body error once a
\* title was kept) when nothing non-empty follows a BODY: marker; on failure both
\* returned strings are empty.
C9_BothOrNothing ==
    parsed # <<>> =>
        LET r == parsed[1]
        IN  /\ r.err = <<>> => r.title # <<>> /\ r.body # <<>>
            /\ ~SomeTitleGiven => r.err = <<"no title found in LLM response">>
            /\ ~SomethingAfterBody =>
                   /\ r.err \in {<<"no title found in LLM response">>,
                                 <<"no body found in LLM response">>}
                   /\ (\E k \in DOMAIN RawLines : IsTitleLine(k))
                        /\ (\A k \in DOMAIN RawLines : IsTitleLine(k) => TitlePayload(k) # <<>>)
                        => r.err = <<"no body found in LLM response">>
            /\ r.err # <<>> => r.title = <<>> /\ r.body = <<>>

\* a response with a title and a BODY: marker but no body text was rejected whole
C9_Witness ==
    /\ parsed # <<>>
    /\ SomeTitleGiven /\ ~SomethingAfterBody
    /\ \E k \in DOMAIN RawLines : IsBodyLine(k)
    /\ parsed[1] = [title |-> <<>>, body |-> <<>>, err |-> <<"no body found in LLM response">>]

\* the response has exactly one TITLE: line, at t, and exactly one BODY: line, at b, after it
OneTitleThenOneBody(t, b) ==
    /\ t < b
    /\ \A k \in DOMAIN RawLines : (IsTitleLine(k) <=> k = t) /\ (IsBodyLine(k) <=> k = b)

\* the lines after line b joined by newlines, trimmed once at the end
BodyAfter(b) == TrimSpace(Join(SubSeq(RawLines, b + 1, Len(RawLines)), "\n"))

\* C10 as stated: for a response with one TITLE: line followed later by one
\* BODY: line (with a title and a body to return), the title is the trimmed rest
\* of the TITLE: line and the body is the lines after the BODY: line joined by
\* newlines and trimmed once at the end; other lines before BODY: change nothing.
C10_BodyTrimmedOnce ==
    parsed # <<>> =>
        \A t, b \in DOMAIN RawLines :
            (OneTitleThenOneBody(t, b) /\ TitlePayload(t) # <<>> /\ BodyAfter(b) # <<>>) =>
                parsed[1] = [title |-> TitlePayload(t), body |-> BodyAfter(b), err |-> <<>>]

\* the first BODY: line of the response
FirstBodyLine == CHOOSE b \in DOMAIN RawLines : IsBodyLine(b) /\ \A k \in 1..(b - 1) : ~IsBodyLine(k)

\* every line after line b, each without its surrounding white space
TrimmedLinesAfter(b) == [k \in 1..(Len(RawLines) - b) |-> TrimSpace(RawLines[b + k])]

\* C11 as stated: once a BODY: line was seen, every later line, whatever its
\* content and blank lines included, is appended to the body in order with one
\* newline between the lines; only the BODY: line itself is left out.
C11_EveryLineAfterBody ==
    (parsed # <<>> /\ parsed[1].err = <<>>) =>
        parsed[1].body = TrimSpace(Join(TrimmedLinesAfter(FirstBodyLine), "\n"))

\* C12 as stated: parsePRResponse succeeds only if the response has a line
\* beginning with TITLE: and, after it, a line beginning with BODY:; every other
\* arrangement, a TITLE: line only after the BODY: line included, fails.
C12_TitleBeforeBody ==
    (parsed # <<>> /\ parsed[1].err = <<>>) =>
        \E t, b \in DOMAIN RawLines : t < b /\ IsTitleLine(t) /\ IsBodyLine(b)

(***************************************************************************)
(* Properties of the adapters, under Spec                                  *)
(***************************************************************************)
\* the provider call of attempt a is over: it returned or it panicked
Finished(a) == log[a].end >= 0

\* the decoded body of attempt a carries no text: no result entry, or a first
\* entry without a text part
NoText(a) == log[a].resp.entries = <<>> \/ log[a].resp.entries[1] = <<>>

\* C13 as stated: for every adapter and every decodable body the outcome is
\* classified in this order: a body with a provider error field gives an error
\* with that provider's message verbatim; otherwise a body without result
\* entries gives a separate explicit no/empty-response error, distinguishable
\* from a provider error; otherwise the first result entry's text is used.
C13_ClassifiedInOrder ==
    \A a \in DOMAIN log :
        (Finished(a) /\ log[a].resp.kind = "body") =>
            LET r == log[a].resp
                o == log[a].res
            IN  /\ ~o.panic
                /\ IF r.error # <<>>
                   THEN o.err # <<>> /\ Contains(o.err, r.error)
                   ELSE IF NoText(a)
                   THEN /\ o.err # <<>>
                        /\ ~Contains(o.err, <<" API error: ">>)
                        /\ \E w \in {"no response from ", "empty response from "} :
                               o.err = <<w, log[a].provider>>
                   ELSE IF kind = "commit"
                   THEN o.err = <<>> /\ TrimSpace(o.text) = TrimSpace(r.entries[1][1])
                   ELSE LET q == parsePRResponse(r.entries[1][1])
                        IN  o.title = q.title /\ o.body = q.body /\ o.err = q.err

\* C14 as stated: on success an adapter's GenerateCommitMessage returns the
\* first result entry's text without its leading and trailing white space; for
\* PR content the first entry's text goes to the response parser untrimmed.
C14_CommitTextTrimmed ==
    \A a \in DOMAIN log :
        (Succeeded(a) /\ kind = "commit") =>
            log[a].res.text = TrimSpace(log[a].resp.entries[1][1])

(***************************************************************************)
(* Properties of the commit command, under SpecCommit                      *)
(***************************************************************************)
\* the spellings of y and yes in either case
YesWords ==
    {<<a>> : a \in {"y", "Y"}}
    \cup {<<a, b, c>> : a \in {"y", "Y"}, b \in {"e", "E"}, c \in {"s", "S"}}

\* the user's first line is ended by a newline and, without the white space
\* around it, is y or yes in either case
Affirmative ==
    \E n \in DOMAIN env.stdin :
       /\ env.stdin[n] = "\n"
       /\ \A j \in 1..(n - 1) : env.stdin[j] # "\n"
       /\ TrimSpace(SubSeq(env.stdin, 1, n - 1)) \in YesWords

Prompted == \E p \in DOMAIN trace : trace[p].ev = "prompt"

GitCommitRan == \E k \in DOMAIN trace : trace[k].ev = "git commit"

\* C15: git commit runs only after a message was generated without error and
\* the prompt that followed was answered y or yes (any case, white space
\* around it ignored), and it commits that message; after any other answer, an
\* empty answer or a read error no git commit runs and the command returns nil.
C15_CommitOnlyAfterYes ==
    /\ \A k \in DOMAIN trace :
          trace[k].ev = "git commit" =>
             \E g, p \in 1..(k - 1) :
                /\ g < p
                /\ trace[g].ev = "generate" /\ trace[g].ok
                /\ trace[k].out = trace[g].out
                /\ trace[p].ev = "prompt"
                /\ Affirmative
    /\ (cpc = "done" /\ Prompted /\ ~Affirmative) => (~GitCommitRan /\ exit = ExitOk)

C15_Witness ==
    /\ cpc = "done"
    /\ GitCommitRan
    /\ env.stdin = <<" ", "Y", "e", "S", " ", "\n">>
    /\ exit = ExitOk

(***************************************************************************)
(* Properties of the pr command, under SpecPR                              *)
(***************************************************************************)
Did(ev) == \E k \in DOMAIN trace : trace[k].ev = ev

\* C16: gh pr create is run only after a confirmation prompt was answered in
\* the affirmative, or when --yes was given.
C16_ConfirmBeforeCreate ==
    \A k \in DOMAIN trace :
       trace[k].ev = "gh pr create" =>
          \/ "yes" \in env.flags
          \/ \E p \in 1..(k - 1) : trace[p].ev = "prompt" /\ trace[p].ok

IsDryRun == "dry-run" \in env.flags

\* the run printed "Creating PR: current -> default": the repository, gh and
\* branch checks are behind it
ChecksPassed == Did("target")

\* git log gave at least one commit
CommitsFound ==
    \E k \in DOMAIN trace :
       trace[k].ev = "git log" /\ trace[k].ok /\ TrimSpace(trace[k].out) # <<>>

\* no template path exists, or the first that exists could be read
TemplateRead == \E k \in DOMAIN trace : trace[k].ev = "template" /\ trace[k].ok

\* a dry run never runs gh pr create, never calls an LLM backend and never
\* fails for want of gh authentication
DryRunIsInert == ~Did("gh pr create") /\ ~Did("llm") /\ exit # <<NotAuthenticatedErr>>

\* the run printed the preview, its body holds the commit log, and it returned nil
Previewed ==
    /\ Did("preview")
    /\ Contains(TraceOut("body"), TrimSpace(TraceOut("git log")))
    /\ exit = ExitOk

\* C17 as stated: a dry run creates nothing, calls no LLM backend, needs no gh
\* authentication, and every dry run that got past the repository and branch
\* checks previews and returns nil
C17_DryRunAlwaysPreviews ==
    IsDryRun =>
       /\ DryRunIsInert
       /\ (cpc = "done" /\ ChecksPassed) => Previewed

\* C17 (amended): a dry run creates nothing, calls no LLM backend and never
\* fails for want of gh authentication; every dry run that got past the repository and
\* branch checks, found at least one commit and could read the template it
\* found (if any) prints a preview built from the commit log and returns nil.
C17_DryRunPreview ==
    IsDryRun =>
       /\ DryRunIsInert
       /\ (cpc = "done" /\ ChecksPassed /\ CommitsFound /\ TemplateRead) => Previewed

C17_Witness ==
    /\ IsDryRun
    /\ ~env.ghAuth
    /\ cpc = "done"
    /\ ChecksPassed /\ CommitsFound /\ TemplateRead
    /\ Previewed
    /\ TraceOut("title") = <<"x", " ", "y">>

(***************************************************************************)
(* Properties of getPRTemplate, under SpecTemplate                         *)
(***************************************************************************)
P1 == ".github/pull_request_template.md"

P2 == ".github/PULL_REQUEST_TEMPLATE.md"

P3 == ".github/PULL_REQUEST_TEMPLATE/pull_request_template.md"

P4 == "docs/pull_request_template.md"

\* the locations that come before p in the priority order
Before(p) ==
    CASE p = P1 -> {}
      [] p = P2 -> {P1}
      [] p = P3 -> {P1, P2}
      [] p = P4 -> {P1, P2, P3}

FirstExisting(p) == env.files[p].exists /\ \A q \in Before(p) : ~env.files[q].exists

SetRan(key) == cpc = "done" /\ env.cmd = "set" /\ env.key = key /\ env.saved

\* v is a decimal integer: an optional sign and one or more digits, blanks
\* around it allowed
IntegerText(v) ==
    LET t == TrimSpace(v)
        d == IF t # <<>> /\ Head(t) \in {"+", "-"} THEN Tail(t) ELSE t
    IN  d # <<>> /\ \A k \in DOMAIN d : d[k] \in Digits

IntegerValue(v) ==
    LET t == TrimSpace(v)
    IN  IF Head(t) = "-" THEN 0 - ParseDigits(Tail(t))
        ELSE IF Head(t) = "+" THEN ParseDigits(Tail(t))
        ELSE ParseDigits(t)

Rejected == exit # ExitOk /\ store = env.before

\* C18: config set providers.delay_threshold v succeeds and persists v exactly
\* when v is an integer from 1 to 300; any other v is rejected with an error
\* and leaves the persisted configuration as it was.
C18_DelayThresholdValidated ==
    SetRan("providers.delay_threshold") =>
       IF IntegerText(env.value) /\ IntegerValue(env.value) \in 1..300
       THEN /\ exit = ExitOk
            /\ store = <<[LoadConfig(env.before) EXCEPT
                             !.delay_threshold = IntegerValue(env.value)]>>
       ELSE Rejected

\* C19: config set providers.priority v succeeds and persists v exactly when v
\* is openai, gemini or claude; any other v is rejected with an error and
\* leaves the persisted priority as it was.
C19_PriorityValidated ==
    SetRan("providers.priority") =>
       IF env.value \in {<<"openai">>, <<"gemini">>, <<"claude">>}
       THEN /\ exit = ExitOk
            /\ store = <<[LoadConfig(env.before) EXCEPT !.priority = env.value]>>
       ELSE Rejected

(***************************************************************************)
(* Properties of the prompts, under SpecPrompt                             *)
(***************************************************************************)
\* the eleven commit-type to glyph mappings
ElevenMappings ==
    {"sparkles feat", "bug fix", "books docs", "lipstick style", "recycle refactor",
     "check test", "wrench chore", "zap perf", "worker ci", "crane build", "rewind revert"}

\* how often token tok stands in s
Occurrences(s, tok) == Cardinality({k \in DOMAIN s : s[k] = tok})

BuiltCommitPrompt == cpc = "done" /\ env.kind = "commit"

\* C21: the commit prompt an adapter sends is CommitMessagePromptTemplate of
\* the same diff and flag; beyond what the diff itself quotes, it holds each of
\* the eleven type-to-glyph mappings, after the instruction line, once when
\* useEmoji is true and not at all when it is false.
C21_CommitPromptEmoji ==
    BuiltCommitPrompt =>
       LET prompt == trace[1].out
           line   == "- Add an appropriate emoji at the beginning of the commit type"
           extra  == IF env.useEmoji THEN 1 ELSE 0
       IN  /\ prompt = CommitMessagePromptTemplate(env.text, env.useEmoji)
           /\ Cardinality(ElevenMappings) = 11
           /\ Occurrences(prompt, line) = extra
           /\ \A m \in ElevenMappings :
                 Occurrences(prompt, m) = Occurrences(env.text, m) + extra

C21_Witness ==
    /\ BuiltCommitPrompt
    /\ env.provider = "Gemini"
    /\ env.useEmoji
    /\ env.text = <<"x", "\n", "y">>
    /\ Occurrences(trace[1].out, "crane build") = 1

(***************************************************************************)
(* Further properties of the pr command, under SpecPR                      *)
(***************************************************************************)
\* C22: when --emoji is given, every PR prompt sent to a backend holds the
\* emoji instruction, whatever use_emoji is in the configuration file.
C22_EmojiFlagOverrides ==
    "emoji" \in env.flags =>
       \A k \in DOMAIN trace :
          trace[k].ev = "llm" =>
             Occurrences(trace[k].out,
                         "- You may add appropriate emojis to make the PR more engaging") >= 1

\* git branch --show-current and git symbolic-ref both answered
BranchesKnown ==
    /\ \E k \in DOMAIN trace : trace[k].ev = "git branch" /\ trace[k].ok
    /\ \E k \in DOMAIN trace : trace[k].ev = "git symbolic-ref" /\ trace[k].ok

\* the branch origin/HEAD points to: the ref without refs/remotes/origin/
RemoteHeadBranch ==
    LET ref == TrimSpace(TraceOut("git symbolic-ref")) IN SubSeq(ref, 7, Len(ref))

\* C23: when the current branch is the default branch, the command ends with an
\* error and has read no commits, called no LLM backend and run no gh pr create.
C23_NoPRFromDefaultBranch ==
    (BranchesKnown /\ TrimSpace(TraceOut("git branch")) = RemoteHeadBranch) =>
       /\ cpc = "done"
       /\ exit # <<>> /\ exit # ExitOk
       /\ ~Did("git log") /\ ~Did("llm") /\ ~Did("gh pr create")

\* C26: the deadline handed to NewProviderManager is between 1 and 300 seconds.
C26_DeadlineInRange ==
    \A k \in DOMAIN trace :
       trace[k].ev = "manager" => trace[k].out[1] \in 1..300

\* the run ended with runPR's failed-to-load-configuration error
LoadFailed == exit # <<>> /\ exit[1] # <<>> /\ exit[1][1] = "failed to load configuration: "

\* C28: LoadConfig returns no error: runPR never ends with its
\* failed-to-load-configuration error, and the configuration it goes on with is
\* the default one when the path cannot be determined or the file is missing,
\* unreadable or not valid YAML, and the parsed file otherwise.
C28_LoadConfigNeverFails ==
    /\ ~LoadFailed
    /\ ChecksPassed =>
          /\ Did("config")
          /\ TraceOut("config") =
                IF env.disk.pathErr \/ env.disk.state \in {"absent", "unreadable", "invalid"}
                THEN DefaultConfig
                ELSE Unmarshal(env.disk.file)

C28_Witness ==
    /\ Did("config")
    /\ ~env.disk.pathErr
    /\ env.disk.state = "invalid"
    /\ TraceOut("config") = DefaultConfig
    /\ Did("gh pr create")
    /\ exit = ExitOk

(***************************************************************************)
(* Further properties of the config commands, under SpecConfig             *)
(***************************************************************************)
\* C27: after any sequence of config init and config set from an absent file,
\* a persisted configuration has delay_threshold in 1..300 and a priority that
\* names a known backend, and a rejected config set leaves the file as it was.
C27_PersistedConfigValid ==
    /\ store # <<>> =>
          /\ store[1].delay_threshold \in 1..300
          /\ store[1].priority \in {<<"openai">>, <<"gemini">>, <<"claude">>}
    /\ (cpc = "done" /\ env.cmd = "set" /\ exit # ExitOk) => store = env.before

C27_Witness ==
    /\ cpc = "done"
    /\ env.cmd = "set" /\ env.key = "providers.delay_threshold"
    /\ env.value = <<"3", "0", "1">>
    /\ exit # ExitOk
    /\ store # <<>>
    /\ store[1].delay_threshold = 300
    /\ store[1].priority = <<"gemini">>

(***************************************************************************)
(* Further properties of the coordinator, under Spec                       *)
(***************************************************************************)
\* what a finished call over a non-empty list returns, read off the attempts
\* of that call alone
OutcomeOfAttempts ==
    LET last == log[Len(log)]
    IN  IF last.res.err = NilErr
        THEN [text |-> last.res.text, title |-> last.res.title, body |-> last.res.body,
              name |-> last.provider, err |-> NilErr]
        ELSE [NoReturn EXCEPT !.name = last.provider,
                              !.err = AllFailedErr(last.provider, last.res.err)]

\* C24: no step of a call changes the provider list or the configured
\* deadline; a call, whatever the previous call on the manager did, starts at
\* the first provider with no attempt made; and what a call returns is fixed by
\* the provider responses of that call.
C24_PerCallStateMachine ==
    [][/\ providers' = providers
       /\ delayThreshold' = delayThreshold
       /\ (pc \in {"idle", "done"} /\ pc' = "loop") => (i' = 1 /\ log' = <<>> /\ now' = 0)
       /\ \A a \in DOMAIN log' : log'[a].index = a /\ log'[a].provider = providers[a]
       /\ (pc' = "done" /\ providers # <<>>) => (log' # <<>> /\ ret' = OutcomeOfAttempts')
      ]_vars

C24_Witness ==
    /\ pc = "loop"
    /\ i = 2
    /\ Len(log) = 1
    /\ Failed(1)
    /\ kind = "pr"

\* the error says the backend sent nothing
IsEmptyResponseErr(err) ==
    err # <<>> /\ err[1] \in {"no response from ", "empty response from "}

\* C25: on the same decoded body, an adapter's GenerateCommitMessage and
\* GeneratePRContent both return, and one reports an empty response exactly
\* when the other does.
C25_EmptyResponseAgreed ==
    \A a \in DOMAIN log :
       (Finished(a) /\ log[a].resp.kind = "body") =>
          LET c == AdapterCommitMessage(log[a].provider, log[a].resp)
              r == AdapterPRContent(log[a].provider, log[a].resp)
          IN  /\ ~c.panic /\ ~r.panic
              /\ IsEmptyResponseErr(c.err) <=> IsEmptyResponseErr(r.err)

\* C30: whenever a later attempt of the call exists, the deadline context of
\* every earlier attempt has been cancelled.
C30_EarlierContextsCancelled ==
    \A a, b \in DOMAIN log : a < b => log[a].cancelled

\* C29: a call over N providers makes at most N attempts, each at a later
\* index than the one before and none for a provider already tried, and, every
\* attempt returning, the call ends.
C29_TerminatesWithinN ==
    /\ [](/\ Len(log) <= Len(providers)
          /\ \A a, b \in DOMAIN log :
                a < b => (log[a].index < log[b].index /\ log[a].provider # log[b].provider))
    /\ (pc \in {"loop", "waiting"}) ~> (pc \in {"done", "panicked"})

C29_Witness ==
    /\ pc = "done"
    /\ Len(providers) = 3
    /\ Len(log) = 3
    /\ ret.err # NilErr

====
